---- MODULE Spec2Model ----
(***************************************************************************)
(* Model of n1mm_log_listener: the N1MM message handler                    *)
(* (n1mm_listener.py, class n1mm_handler) driving the versioned QSO        *)
(* database through its wrapper (qso_database.py, class qso_database).     *)
(*                                                                         *)
(* The database schema (qso_database.sql) defines the table qsos_raw and   *)
(* the views qsos and deleted_qsos.  Its behaviour is modelled from the    *)
(* specification and from the assertions of test_sql_database.py; the      *)
(* definitions concerned are the ones prefixed "sql_".                     *)
(***************************************************************************)
EXTENDS Integers, Sequences, FiniteSets, TLC

(***************************************************************************)
(* Bounds of the model.                                                    *)
(***************************************************************************)
MaxKeys == 2
MaxRows == 5
MaxMsgs == 3
MaxPairRows == 3

(***************************************************************************)
(* Values.  NULL is SQL NULL / Python None for a field; None is Python     *)
(* None for a qsoid (the SERIAL qsoid starts at 1).                        *)
(***************************************************************************)
NULL == "NULL"
None == 0
Epoch == "1970-01-01"
Timestamps == {"T1", "T2"}
Calls == {"LA1K", "LA3WUA"}
Comments == {"a"}

\* contactinfo / contactreplace messages: a full contact.
Contacts == [timestamp : Timestamps, call : Calls, comment : Comments]

\* contactdelete messages: possibly degenerate identifying fields.
DeleteContacts ==
    [timestamp : Timestamps, call : Calls, comment : {NULL}]
        \cup {[timestamp |-> Epoch, call |-> NULL, comment |-> NULL]}

\* The all-NULL row that a DELETE on the view qsos appends to qsos_raw.
Tombstone == [timestamp |-> NULL, call |-> NULL, comment |-> NULL]

VARIABLES
    qsos_raw,              \* qsoid -> sequence of row versions, ordered by modified
    last_deleted_contact,  \* n1mm_handler.last_deleted_contact
    raised,                \* an exception escaped handle_message
    last,                  \* the last operation performed, with its outcome
    pre                    \* qsos_raw as it was before the last contactdelete,
                           \* and last_deleted_contact as it was when that
                           \* one repeated the contactdelete before it; kept
                           \* while that contactdelete is the last message
                           \* or is directly followed by one contactreplace

VARIABLES
    socket,                \* datagrams the UDP socket has queued, oldest first
    msg,                   \* the datagram the receive loop holds, or NoMsg
    handled,               \* the messages handle_message has returned from
    sent                   \* every datagram N1MM has sent, in order

loop == <<socket, msg, handled, sent>>

VARIABLES
    self,                  \* the n1mm_handler instance that handle_message is
                           \* called on, 1 or 2
    other                  \* last_deleted_contact of the other instance

vars == <<qsos_raw, last_deleted_contact, raised, last, pre, loop, self, other>>

(***************************************************************************)
(* The database: table qsos_raw and the views on it.                       *)
(***************************************************************************)
IsTombstone(row) == row.timestamp = NULL \/ row.call = NULL

Last(h) == h[Len(h)]

\* qsoids that have rows in qsos_raw.
Allocated(raw) == 1..Len(raw)

\* View qsos: the most recent version of every qsoid, unless it is the NULL row.
sql_qsos(raw) == {k \in Allocated(raw) : ~IsTombstone(Last(raw[k]))}

\* View deleted_qsos: the qsoids whose most recent version is the NULL row.
sql_deleted_qsos(raw) == {k \in Allocated(raw) : IsTombstone(Last(raw[k]))}

AppendRow(raw, k, row) == [raw EXCEPT ![k] = Append(@, row)]

\* INSERT INTO qsos: a new qsoid from the sequence, first version in qsos_raw.
sql_insert(raw, row) == Append(raw, <<row>>)

\* UPDATE qsos ... WHERE qsoid = k: a new version for a row of the view.
sql_update(raw, k, row) ==
    IF k \in sql_qsos(raw) THEN AppendRow(raw, k, row) ELSE raw

\* DELETE FROM qsos WHERE qsoid = k: a NULL version for a row of the view.
sql_delete(raw, k) ==
    IF k \in sql_qsos(raw) THEN AppendRow(raw, k, Tombstone) ELSE raw

TotalRows(raw) ==
    LET RECURSIVE Sum(_)
        Sum(i) == IF i = 0 THEN 0 ELSE Len(raw[i]) + Sum(i - 1)
    IN  Sum(Len(raw))

(***************************************************************************)
(* qso_database.py                                                         *)
(***************************************************************************)
\* insert_qso that takes the qsoid of a deleted QSO when there is one.
insert_qso_ReuseDeleted(raw, contactinfo) ==
    IF sql_deleted_qsos(raw) # {}
    THEN LET k == CHOOSE k \in sql_deleted_qsos(raw) : TRUE
         IN  [raw EXCEPT ![k] = <<contactinfo>>]
    ELSE sql_insert(raw, contactinfo)

insert_qso(raw, contactinfo) == sql_insert(raw, contactinfo)

\* update_qso that overwrites the most recent version.
update_qso_InPlace(raw, qso_id, contactinfo) ==
    IF qso_id \in sql_qsos(raw)
    THEN [raw EXCEPT ![qso_id][Len(raw[qso_id])] = contactinfo]
    ELSE raw

\* update_qso that writes a version for any qsoid of qsos_raw, deleted or not.
update_qso_Revives(raw, qso_id, contactinfo) ==
    IF qso_id \in Allocated(raw) THEN AppendRow(raw, qso_id, contactinfo) ELSE raw

update_qso(raw, qso_id, contactinfo) == sql_update(raw, qso_id, contactinfo)

\* delete_qso whose DELETE is never committed.
delete_qso_NoCommit(raw, qso_id) == raw

\* delete_qso that writes a NULL version under a new qsoid when it is given
\* no qsoid.
delete_qso_NullRow(raw, qso_id) ==
    IF qso_id = None THEN Append(raw, <<Tombstone>>) ELSE sql_delete(raw, qso_id)

\* delete_qso without its WHERE clause: every row of qsos is deleted.
delete_qso_All(raw, qso_id) ==
    [k \in Allocated(raw) |->
        IF k \in sql_qsos(raw) THEN Append(raw[k], Tombstone) ELSE raw[k]]

delete_qso(raw, qso_id) == sql_delete(raw, qso_id)

\* MostRecentNonNull with MIN(modified) for MAX(modified).
MostRecentNonNull_Oldest(h) ==
    LET S == {i \in 1..Len(h) : h[i].call # NULL /\ h[i].timestamp # NULL}
    IN  IF S = {} THEN 0 ELSE CHOOSE i \in S : \A j \in S : i <= j

\* Index of the most recent version of h with call and timestamp not NULL
\* (0 if there is none): MAX(modified) ... WHERE call IS NOT NULL AND
\* timestamp IS NOT NULL.
MostRecentNonNull(h) ==
    LET S == {i \in 1..Len(h) : h[i].call # NULL /\ h[i].timestamp # NULL}
    IN  IF S = {} THEN 0 ELSE CHOOSE i \in S : \A j \in S : j <= i

\* undo_delete without the check that the QSO is deleted.
undo_delete_Unchecked(raw, qso_id) ==
    IF qso_id \in Allocated(raw)
    THEN LET i == MostRecentNonNull(raw[qso_id])
         IN  IF i = 0 THEN raw ELSE AppendRow(raw, qso_id, raw[qso_id][i])
    ELSE raw

undo_delete(raw, qso_id) ==
    IF qso_id \in sql_deleted_qsos(raw)
    THEN LET i == MostRecentNonNull(raw[qso_id])
         IN  IF i = 0 THEN raw ELSE AppendRow(raw, qso_id, raw[qso_id][i])
    ELSE raw

\* get_qso_id that searches all versions in qsos_raw.
get_qso_id_AnyVersion(raw, timestamp, call) ==
    LET M == {k \in Allocated(raw) :
                 /\ timestamp # NULL /\ call # NULL
                 /\ \E i \in 1..Len(raw[k]) :
                       /\ raw[k][i].timestamp = timestamp
                       /\ raw[k][i].call = call}
    IN  IF M = {} THEN {None} ELSE M

\* get_qso_id whose test of the fetched row fails: always None.
get_qso_id_NeverFound(raw, timestamp, call) == {None}

\* The values get_qso_id may return: fetchone() gives some matching row of
\* the view, in no defined order, and None when there is no row.  A NULL
\* parameter matches no row (comparison with NULL is never true).
get_qso_id(raw, timestamp, call) ==
    LET M == {k \in sql_qsos(raw) :
                 /\ timestamp # NULL /\ call # NULL
                 /\ Last(raw[k]).timestamp = timestamp
                 /\ Last(raw[k]).call = call}
    IN  IF M = {} THEN {None} ELSE M

(***************************************************************************)
(* n1mm_listener.py: class n1mm_handler                                    *)
(***************************************************************************)
\* last_deleted_contact = None, as __init__ leaves it.
NoContact == [timestamp |-> NULL, call |-> NULL, qsoid |-> -1]

NoPre == [set |-> FALSE, raw |-> <<>>, deleted |-> NoContact]

NoMsg == [kind |-> "none", contact |-> Tombstone]

NoOp == [op |-> "init", contact |-> Tombstone, qsoid |-> None, outcome |-> "none"]

Init ==
    /\ qsos_raw = <<>>
    /\ last_deleted_contact = NoContact
    /\ raised = FALSE
    /\ last = NoOp
    /\ pre = NoPre
    /\ socket = <<>>
    /\ msg = NoMsg
    /\ handled = <<>>
    /\ sent = <<>>
    /\ self = 1
    /\ other = NoContact

\* handle_message, 'contactinfo' branch.
HandleContactInfo(contact) ==
    /\ ~raised
    /\ UNCHANGED <<self, other>>
    /\ Len(qsos_raw) < MaxKeys
    /\ qsos_raw' = insert_qso(qsos_raw, contact)
    /\ TotalRows(qsos_raw') <= MaxRows
    /\ last' = [op |-> "contactinfo", contact |-> contact,
                qsoid |-> Len(qsos_raw'), outcome |-> "Inserted"]
    /\ pre' = NoPre
    /\ UNCHANGED <<last_deleted_contact, raised>>

\* The contactdelete follows directly a contactdelete of the same timestamp
\* and call that found a QSO.
RepeatsDelete(contact) ==
    /\ last.op = "contactdelete"
    /\ last_deleted_contact.qsoid # None
    /\ last_deleted_contact.timestamp = contact.timestamp
    /\ last_deleted_contact.call = contact.call

\* HandleContactDelete that keeps the qsoid of the previous contactdelete
\* when its own lookup finds nothing.
HandleContactDelete_KeepsResolved(contact) ==
    /\ ~raised
    /\ UNCHANGED <<self, other>>
    /\ \E qso_id \in get_qso_id(qsos_raw, contact.timestamp, contact.call) :
          /\ qsos_raw' = delete_qso(qsos_raw, qso_id)
          /\ last_deleted_contact' =
                 [timestamp |-> contact.timestamp, call |-> contact.call,
                  qsoid |-> IF qso_id = None /\ last_deleted_contact # NoContact
                            THEN last_deleted_contact.qsoid ELSE qso_id]
          /\ last' = [op |-> "contactdelete", contact |-> contact,
                      qsoid |-> qso_id, outcome |-> "Deleted"]
    /\ TotalRows(qsos_raw') <= MaxRows
    /\ pre' = [set |-> TRUE, raw |-> qsos_raw,
               deleted |-> IF RepeatsDelete(contact)
                           THEN last_deleted_contact ELSE NoContact]
    /\ UNCHANGED raised

\* HandleContactDelete that keeps the deleted contact in an attribute of the
\* class, which every instance reads.
HandleContactDelete_ClassAttribute(contact) ==
    /\ ~raised
    /\ UNCHANGED self
    /\ \E qso_id \in get_qso_id(qsos_raw, contact.timestamp, contact.call) :
          /\ qsos_raw' = delete_qso(qsos_raw, qso_id)
          /\ last_deleted_contact' =
                 [timestamp |-> contact.timestamp, call |-> contact.call,
                  qsoid |-> qso_id]
          /\ last' = [op |-> "contactdelete", contact |-> contact,
                      qsoid |-> qso_id, outcome |-> "Deleted"]
    /\ other' = last_deleted_contact'
    /\ TotalRows(qsos_raw') <= MaxRows
    /\ pre' = [set |-> TRUE, raw |-> qsos_raw,
               deleted |-> IF RepeatsDelete(contact)
                           THEN last_deleted_contact ELSE NoContact]
    /\ UNCHANGED raised

\* handle_message, 'contactdelete' branch.  Of the contact kept in
\* last_deleted_contact only timestamp, call and qsoid are read later.
HandleContactDelete(contact) ==
    /\ ~raised
    /\ UNCHANGED <<self, other>>
    /\ \E qso_id \in get_qso_id(qsos_raw, contact.timestamp, contact.call) :
          /\ qsos_raw' = delete_qso(qsos_raw, qso_id)
          /\ last_deleted_contact' =
                 [timestamp |-> contact.timestamp, call |-> contact.call,
                  qsoid |-> qso_id]
          /\ last' = [op |-> "contactdelete", contact |-> contact,
                      qsoid |-> qso_id, outcome |-> "Deleted"]
    /\ TotalRows(qsos_raw') <= MaxRows
    /\ pre' = [set |-> TRUE, raw |-> qsos_raw,
               deleted |-> IF RepeatsDelete(contact)
                           THEN last_deleted_contact ELSE NoContact]
    /\ UNCHANGED raised

\* ReplaceFirst without the revival of the deleted QSO.
ReplaceFirst_NoUndo(raw, ldc, contact) ==
    IF ldc.qsoid = None
    THEN {[raw |-> raw, qsoid |-> q] :
             q \in get_qso_id(raw, contact.timestamp, contact.call)}
    ELSE {[raw |-> raw, qsoid |-> ldc.qsoid]}

\* ReplaceFirst that looks the contact up first and takes the qsoid of the
\* contactdelete only when the lookup finds nothing.
ReplaceFirst_OwnFieldsFirst(raw, ldc, contact) ==
    IF ldc.qsoid = None \/ get_qso_id(raw, contact.timestamp, contact.call) # {None}
    THEN {[raw |-> raw, qsoid |-> q] :
             q \in get_qso_id(raw, contact.timestamp, contact.call)}
    ELSE {[raw |-> undo_delete(raw, ldc.qsoid), qsoid |-> ldc.qsoid]}

\* The qsoid the 'contactreplace' branch has after its first lookup, with
\* the database as that step leaves it.
ReplaceFirst(raw, ldc, contact) ==
    IF ldc.qsoid = None
    THEN {[raw |-> raw, qsoid |-> q] :
             q \in get_qso_id(raw, contact.timestamp, contact.call)}
    ELSE {[raw |-> undo_delete(raw, ldc.qsoid), qsoid |-> ldc.qsoid]}

\* Candidates with the two lookups in the other order.
Candidates_Swapped(raw, ldc, contact) ==
    {SelectSeq(<<c2, c1>>, LAMBDA v : v # None) :
        c1 \in get_qso_id(raw, contact.timestamp, ldc.call),
        c2 \in get_qso_id(raw, ldc.timestamp, contact.call)}

\* The candidates of the guess: the non-None results of the two
\* cross-matched lookups, in their order.
Candidates(raw, ldc, contact) ==
    {SelectSeq(<<c1, c2>>, LAMBDA v : v # None) :
        c1 \in get_qso_id(raw, contact.timestamp, ldc.call),
        c2 \in get_qso_id(raw, ldc.timestamp, contact.call)}

\* ReplaceResults that inserts the contact as a new QSO when no candidate
\* is found.
ReplaceResults_InsertOnGiveUp(raw, ldc, contact) ==
    LET Resolved(f) ==
            IF f.qsoid # None
            THEN {f}
            ELSE {IF Len(c) > 0
                  THEN [raw |-> f.raw, qsoid |-> c[1]]
                  ELSE [raw |-> f.raw, qsoid |-> None] :
                      c \in Candidates(f.raw, ldc, contact)}
        Finish(r) ==
            IF r.qsoid = None
            THEN [raw |-> insert_qso(r.raw, contact), qsoid |-> None,
                  outcome |-> "GaveUp"]
            ELSE [raw |-> update_qso(r.raw, r.qsoid, contact),
                  qsoid |-> r.qsoid, outcome |-> "Replaced"]
    IN  {Finish(r) : r \in UNION {Resolved(f) : f \in ReplaceFirst(raw, ldc, contact)}}

\* The results of the 'contactreplace' branch once last_deleted_contact is
\* known not to be None.
ReplaceResults(raw, ldc, contact) ==
    LET Resolved(f) ==
            IF f.qsoid # None
            THEN {f}
            ELSE {IF Len(c) > 0
                  THEN [raw |-> f.raw, qsoid |-> c[1]]
                  ELSE [raw |-> f.raw, qsoid |-> None] :
                      c \in Candidates(f.raw, ldc, contact)}
        Finish(r) ==
            IF r.qsoid = None
            THEN [raw |-> r.raw, qsoid |-> None, outcome |-> "GaveUp"]
            ELSE [raw |-> update_qso(r.raw, r.qsoid, contact),
                  qsoid |-> r.qsoid, outcome |-> "Replaced"]
    IN  {Finish(r) : r \in UNION {Resolved(f) : f \in ReplaceFirst(raw, ldc, contact)}}

\* HandleContactReplace that forgets the deleted contact once it has been
\* used.
HandleContactReplace_ClearsDeleted(contact) ==
    /\ ~raised
    /\ UNCHANGED <<self, other>>
    /\ IF last_deleted_contact = NoContact
       THEN /\ raised' = TRUE
            /\ last' = [op |-> "contactreplace", contact |-> contact,
                        qsoid |-> None, outcome |-> "TypeError"]
            /\ UNCHANGED qsos_raw
       ELSE /\ \E r \in ReplaceResults(qsos_raw, last_deleted_contact, contact) :
                  /\ qsos_raw' = r.raw
                  /\ last' = [op |-> "contactreplace", contact |-> contact,
                              qsoid |-> r.qsoid, outcome |-> r.outcome]
            /\ UNCHANGED raised
    /\ TotalRows(qsos_raw') <= MaxRows
    /\ pre' = IF last.op = "contactdelete" THEN pre ELSE NoPre
    /\ last_deleted_contact' = NoContact

\* handle_message, 'contactreplace' branch.
HandleContactReplace(contact) ==
    /\ ~raised
    /\ UNCHANGED <<self, other>>
    /\ IF last_deleted_contact = NoContact
       THEN \* None['qsoid']: TypeError
            /\ raised' = TRUE
            /\ last' = [op |-> "contactreplace", contact |-> contact,
                        qsoid |-> None, outcome |-> "TypeError"]
            /\ UNCHANGED qsos_raw
       ELSE /\ \E r \in ReplaceResults(qsos_raw, last_deleted_contact, contact) :
                  /\ qsos_raw' = r.raw
                  /\ last' = [op |-> "contactreplace", contact |-> contact,
                              qsoid |-> r.qsoid, outcome |-> r.outcome]
            /\ UNCHANGED raised
    /\ TotalRows(qsos_raw') <= MaxRows
    /\ pre' = IF last.op = "contactdelete" THEN pre ELSE NoPre
    /\ UNCHANGED last_deleted_contact

(***************************************************************************)
(* The methods of qso_database called on their own.                        *)
(***************************************************************************)
StoreOp(op, contact, qso_id, raw) ==
    /\ ~raised
    /\ UNCHANGED <<self, other>>
    /\ qsos_raw' = raw
    /\ Len(qsos_raw') <= MaxKeys
    /\ TotalRows(qsos_raw') <= MaxRows
    /\ last' = [op |-> op, contact |-> contact, qsoid |-> qso_id, outcome |-> "none"]
    /\ pre' = NoPre
    /\ UNCHANGED <<last_deleted_contact, raised, loop>>

InsertQso(contact) ==
    StoreOp("insert_qso", contact, Len(qsos_raw) + 1, insert_qso(qsos_raw, contact))

UpdateQso(qso_id, contact) ==
    StoreOp("update_qso", contact, qso_id, update_qso(qsos_raw, qso_id, contact))

DeleteQso(qso_id) ==
    StoreOp("delete_qso", Tombstone, qso_id, delete_qso(qsos_raw, qso_id))

UndoDelete(qso_id) ==
    StoreOp("undo_delete", Tombstone, qso_id, undo_delete(qsos_raw, qso_id))

\* The listener: one message at a time, in arrival order.
Next ==
    \/ \E contact \in Contacts : HandleContactInfo(contact) /\ UNCHANGED loop
    \/ \E contact \in DeleteContacts :
          HandleContactDelete(contact) /\ UNCHANGED loop
    \/ \E contact \in Contacts : HandleContactReplace(contact) /\ UNCHANGED loop

Spec == Init /\ [][Next]_vars

\* The database on its own: the methods of qso_database called in any order
\* with any arguments.  Every message the listener handles is a sequence of
\* such calls.
NextStore ==
    \/ \E contact \in Contacts : InsertQso(contact)
    \/ \E qso_id \in 0..MaxKeys, contact \in Contacts : UpdateQso(qso_id, contact)
    \/ \E qso_id \in 0..MaxKeys : DeleteQso(qso_id)
    \/ \E qso_id \in 0..MaxKeys : UndoDelete(qso_id)

StoreSpec == Init /\ [][NextStore]_vars

\* The messages N1MM sends: the root tag and the contact.
Messages ==
    [kind : {"contactinfo", "contactreplace"}, contact : Contacts]
        \cup [kind : {"contactdelete"}, contact : DeleteContacts]

\* N1MM sends a datagram and the socket queues it.  At most MaxMsgs are sent,
\* and of these at most MaxKeys are contactinfo.
Send(m) ==
    /\ Len(sent) < MaxMsgs
    /\ m.kind = "contactinfo" =>
           Cardinality({i \in 1..Len(sent) : sent[i].kind = "contactinfo"})
               < MaxKeys
    /\ socket' = Append(socket, m)
    /\ sent' = Append(sent, m)
    /\ UNCHANGED <<qsos_raw, last_deleted_contact, raised, last, pre,
                   msg, handled, self, other>>

\* msg = n1mm.recv(5024): the loop takes the oldest queued datagram.
Recv ==
    /\ ~raised
    /\ msg = NoMsg
    /\ socket # <<>>
    /\ msg' = Head(socket)
    /\ socket' = Tail(socket)
    /\ UNCHANGED <<qsos_raw, last_deleted_contact, raised, last, pre,
                   handled, sent, self, other>>

\* handler.handle_message(msg): the branch of the root tag runs.  When it
\* raises, the exception leaves the loop and the listener ends with the
\* message not handled.
Handle ==
    /\ msg # NoMsg
    /\ \/ msg.kind = "contactinfo" /\ HandleContactInfo(msg.contact)
       \/ msg.kind = "contactdelete" /\ HandleContactDelete(msg.contact)
       \/ msg.kind = "contactreplace" /\ HandleContactReplace(msg.contact)
    /\ msg' = IF raised' THEN msg ELSE NoMsg
    /\ handled' = IF raised' THEN handled ELSE Append(handled, msg)
    /\ UNCHANGED <<socket, sent>>

NextLoop ==
    \/ \E m \in Messages : Send(m)
    \/ Recv
    \/ Handle

LoopSpec == Init /\ [][NextLoop]_vars

\* The loop runs whenever it can: the scheduler is fair to the receive loop;
\* nothing is assumed of N1MM.
FairLoopSpec == LoopSpec /\ WF_vars(Recv) /\ WF_vars(Handle)

\* The next message goes to the other of two n1mm_handler instances, created
\* with the same qso_db: in its handle_message, self is that instance.
CallOther ==
    /\ ~raised
    /\ self' = 3 - self
    /\ last_deleted_contact' = other
    /\ other' = last_deleted_contact
    /\ UNCHANGED <<qsos_raw, raised, last, pre, loop>>

\* The database stays within MaxPairRows versions.
PairBound == TotalRows(qsos_raw') <= MaxPairRows /\ UNCHANGED loop

\* Two instances handling messages in any interleaving.
NextPair ==
    \/ CallOther
    \/ \E contact \in Contacts : HandleContactInfo(contact) /\ PairBound
    \/ \E contact \in DeleteContacts : HandleContactDelete(contact) /\ PairBound
    \/ \E contact \in Contacts : HandleContactReplace(contact) /\ PairBound

PairSpec == Init /\ [][NextPair]_vars

(***************************************************************************)
(* Properties.                                                             *)
(***************************************************************************)
\* The rows of the view qsos with the given timestamp and call.
Matching(raw, timestamp, call) ==
    {k \in sql_qsos(raw) :
        Last(raw[k]).timestamp = timestamp /\ Last(raw[k]).call = call}

\* The last two messages were a contactdelete and then a contactreplace.
DeleteThenReplace == pre.set /\ last.op = "contactreplace"

IsPrefix(h, g) == Len(h) <= Len(g) /\ \A i \in 1..Len(h) : g[i] = h[i]

\* The case of C1: the contactdelete and the contactreplace both carry the
\* timestamp and call of K, the only row of qsos that had them.
C1_Case(K) ==
    /\ DeleteThenReplace
    /\ last_deleted_contact.timestamp = last.contact.timestamp
    /\ last_deleted_contact.call = last.contact.call
    /\ Matching(pre.raw, last.contact.timestamp, last.contact.call) = {K}

\* C1: when exactly one present QSO K has (T, C), contactdelete(T, C) followed
\* by contactreplace(T, C, P) leaves K in qsos with payload P, allocates no
\* qsoid, and leaves the qsos row of every other qsoid as before the delete.
C1_DeleteReplaceFullInfo ==
    \A K \in Allocated(pre.raw) :
        C1_Case(K) =>
            /\ K \in sql_qsos(qsos_raw)
            /\ Last(qsos_raw[K]) = last.contact
            /\ Len(qsos_raw) = Len(pre.raw)
            /\ \A j \in Allocated(pre.raw) \ {K} :
                  /\ j \in sql_qsos(qsos_raw) <=> j \in sql_qsos(pre.raw)
                  /\ Last(qsos_raw[j]) = Last(pre.raw[j])

\* C1 happens with a second QSO in the database.
C1_Witness ==
    \E K \in Allocated(pre.raw) :
        C1_Case(K) /\ Len(pre.raw) = 2 /\ sql_qsos(pre.raw) = {1, 2}

\* The case of C2: the contactdelete found K, and the contactreplace that
\* directly follows is applied to K.
C2_Case(K) ==
    /\ DeleteThenReplace
    /\ last_deleted_contact.qsoid = K
    /\ last.outcome = "Replaced"
    /\ last.qsoid = K

\* C2 as claimed: a contactdelete that finds K, directly followed by a
\* contactreplace applied to K, adds exactly 2 versions to the history of K.
C2_GrowsByTwo ==
    \A K \in Allocated(pre.raw) :
        C2_Case(K) => Len(qsos_raw[K]) = Len(pre.raw[K]) + 2

\* C2 (amended): a contactdelete that finds K, directly followed by a
\* contactreplace applied to K, adds exactly 3 versions to the history of K:
\* the NULL version, a copy of the version before the delete, and the
\* replacement.  A QSO with only its first version ends with 4 versions.
C2_GrowsByThree ==
    \A K \in Allocated(pre.raw) :
        C2_Case(K) =>
            /\ Len(qsos_raw[K]) = Len(pre.raw[K]) + 3
            /\ qsos_raw[K] =
                   pre.raw[K] \o <<Tombstone, Last(pre.raw[K]), last.contact>>
            /\ Len(pre.raw[K]) = 1 => Len(qsos_raw[K]) = 4

\* C2 happens for a QSO that had only its first version.
C2_Witness == \E K \in Allocated(pre.raw) : C2_Case(K) /\ Len(pre.raw[K]) = 1

C4_GaveUpLeavesStore ==
    [][(/\ last'.op = "contactreplace"
        /\ last_deleted_contact # NoContact
        /\ last_deleted_contact.qsoid = None
        /\ get_qso_id(qsos_raw, last'.contact.timestamp, last'.contact.call)
               = {None}
        /\ get_qso_id(qsos_raw, last'.contact.timestamp,
                      last_deleted_contact.call) = {None}
        /\ get_qso_id(qsos_raw, last_deleted_contact.timestamp,
                      last'.contact.call) = {None})
       => (last'.outcome = "GaveUp" /\ qsos_raw' = qsos_raw)]_vars

\* C4 happens on a database that has a present QSO.
C4_Witness ==
    /\ last.op = "contactreplace"
    /\ last.outcome = "GaveUp"
    /\ last_deleted_contact.qsoid = None
    /\ sql_qsos(qsos_raw) # {}

\* C5 as claimed: no message makes handle_message raise.
C5_NeverRaises == raised = FALSE

\* The timestamps and calls a lookup can be made with.
LookupKeys == (Timestamps \cup {Epoch}) \X Calls

\* C6: for every qsoid K in qsos_raw, K is a row of qsos (and is found by
\* get_qso_id) exactly when its most recent version is not the NULL version,
\* and then it is found under the timestamp and call of that most recent
\* version and under no other.
C6_ViewIsLatestVersion ==
    \A K \in Allocated(qsos_raw) :
        LET latest == Last(qsos_raw[K])
            Found == {tc \in LookupKeys : K \in get_qso_id(qsos_raw, tc[1], tc[2])}
        IN  /\ K \in sql_qsos(qsos_raw) <=> latest # Tombstone
            /\ Found # {} <=> latest # Tombstone
            /\ latest # Tombstone => Found = {<<latest.timestamp, latest.call>>}

\* C6 happens with a deleted QSO beside a QSO whose timestamp and call were
\* replaced.
C6_Witness ==
    \E K, J \in Allocated(qsos_raw) :
        /\ Last(qsos_raw[K]) = Tombstone
        /\ Last(qsos_raw[J]) # Tombstone
        /\ Len(qsos_raw[J]) >= 2
        /\ Last(qsos_raw[J]).timestamp # qsos_raw[J][1].timestamp
        /\ Last(qsos_raw[J]).call # qsos_raw[J][1].call

\* C7: in every step the history of every qsoid is a prefix of its history
\* after the step, and update_qso on a row of qsos appends exactly one
\* version, the new contact, which is then the row of qsos.
C7_HistoryAppendOnly ==
    [][/\ Len(qsos_raw') >= Len(qsos_raw)
       /\ \A k \in Allocated(qsos_raw) : IsPrefix(qsos_raw[k], qsos_raw'[k])
       /\ (last'.op = "update_qso" /\ last'.qsoid \in sql_qsos(qsos_raw))
          => /\ qsos_raw' = AppendRow(qsos_raw, last'.qsoid, last'.contact)
             /\ last'.qsoid \in sql_qsos(qsos_raw')]_vars

\* C7 happens with a QSO that was inserted and then replaced twice.
C7_Witness ==
    /\ last.op = "update_qso"
    /\ last.qsoid \in Allocated(qsos_raw)
    /\ Len(qsos_raw[last.qsoid]) = 3
    /\ \A i \in 1..3 : qsos_raw[last.qsoid][i] # Tombstone
    /\ Last(qsos_raw[last.qsoid]) = last.contact

\* C8: only a contactinfo changes the number of qsoids, it adds exactly one
\* qsoid that no history has, also when some QSO is deleted, and no message
\* moves or shortens the history kept under a qsoid.
C8_KeysOnlyByInsert ==
    [][/\ Len(qsos_raw') # Len(qsos_raw) => last'.op = "contactinfo"
       /\ last'.op = "contactinfo" =>
              /\ Len(qsos_raw') = Len(qsos_raw) + 1
              /\ last'.qsoid = Len(qsos_raw')
              /\ last'.qsoid \notin Allocated(qsos_raw)
              /\ qsos_raw'[last'.qsoid] = <<last'.contact>>
       /\ \A k \in Allocated(qsos_raw) :
              /\ k \in Allocated(qsos_raw')
              /\ IsPrefix(qsos_raw[k], qsos_raw'[k])]_vars

\* C8 happens when a contactinfo arrives while an earlier QSO is deleted.
C8_Witness ==
    /\ last.op = "contactinfo"
    /\ last.qsoid = 2
    /\ Last(qsos_raw[1]) = Tombstone

\* C9: undo_delete of a qsoid whose most recent version is not the NULL
\* version (or that has no version) changes nothing in qsos_raw; a second
\* undo_delete in a row changes nothing; and undo_delete directly after
\* delete_qso of a row of qsos appends exactly one version.
C9_UndoIdempotent ==
    [][last'.op = "undo_delete" =>
          LET k == last'.qsoid
              deleted == k \in Allocated(qsos_raw) /\ Last(qsos_raw[k]) = Tombstone
          IN  /\ ~deleted => qsos_raw' = qsos_raw
              /\ (last.op = "undo_delete" /\ last.qsoid = k)
                     => qsos_raw' = qsos_raw
              /\ (last.op = "delete_qso" /\ last.qsoid = k /\ deleted) =>
                     /\ Len(qsos_raw'[k]) = Len(qsos_raw[k]) + 1
                     /\ Last(qsos_raw'[k]) # Tombstone]_vars

\* C9 happens after one undo_delete has revived a deleted QSO (the second
\* undo_delete starts here).
C9_Witness ==
    /\ last.op = "undo_delete"
    /\ last.qsoid \in sql_qsos(qsos_raw)
    /\ Len(qsos_raw[last.qsoid]) = 3
    /\ qsos_raw[last.qsoid][2] = Tombstone
    /\ ENABLED UndoDelete(last.qsoid)

\* C10: undo_delete of a qsoid whose most recent version is the NULL version
\* appends to its history exactly one version, a copy of the most recent
\* version that is not the NULL version, and changes no other history.
C10_UndoCopiesLatestNonNull ==
    [][(/\ last'.op = "undo_delete"
        /\ last'.qsoid \in Allocated(qsos_raw)
        /\ Last(qsos_raw[last'.qsoid]) = Tombstone)
       => LET h == qsos_raw[last'.qsoid]
          IN  \E i \in 1..Len(h) :
                 /\ h[i] # Tombstone
                 /\ \A j \in (i + 1)..Len(h) : h[j] = Tombstone
                 /\ qsos_raw' = AppendRow(qsos_raw, last'.qsoid, h[i])]_vars

\* C10 happens for a QSO that was replaced before it was deleted.
C10_Witness ==
    /\ last.op = "undo_delete"
    /\ last.qsoid \in Allocated(qsos_raw)
    /\ LET h == qsos_raw[last.qsoid]
       IN  /\ Len(h) = 4
           /\ h[3] = Tombstone
           /\ h[1] # h[2]
           /\ h[4] = h[2]

\* The timestamps and calls of messages, NULL included.
AllLookupKeys == (Timestamps \cup {Epoch, NULL}) \X (Calls \cup {NULL})

\* The qsoids whose most recent version has exactly this timestamp and call
\* (a NULL version has neither).
LatestHas(raw, timestamp, call) ==
    {k \in Allocated(raw) :
        /\ Last(raw[k]) # Tombstone
        /\ Last(raw[k]).timestamp = timestamp
        /\ Last(raw[k]).call = call}

\* C11: get_qso_id(timestamp, call) returns None or a qsoid whose most recent
\* version is not the NULL version and has exactly that timestamp and call;
\* it returns None exactly when no such qsoid exists, and never a qsoid whose
\* most recent version is the NULL version, whatever its older versions.
C11_LookupFindsPresentOnly ==
    \A tc \in AllLookupKeys :
        LET R == get_qso_id(qsos_raw, tc[1], tc[2])
        IN  /\ R # {}
            /\ R \subseteq {None} \cup LatestHas(qsos_raw, tc[1], tc[2])
            /\ None \in R <=> LatestHas(qsos_raw, tc[1], tc[2]) = {}
            /\ \A k \in Allocated(qsos_raw) :
                  Last(qsos_raw[k]) = Tombstone => k \notin R

\* C11 happens when a deleted QSO has an older version with the timestamp and
\* call looked up, beside a present QSO that is found.
C11_Witness ==
    \E K, J \in Allocated(qsos_raw) :
        /\ Last(qsos_raw[K]) = Tombstone
        /\ get_qso_id(qsos_raw, qsos_raw[K][1].timestamp, qsos_raw[K][1].call)
               = {None}
        /\ Last(qsos_raw[J]) # Tombstone
        /\ get_qso_id(qsos_raw, Last(qsos_raw[J]).timestamp, Last(qsos_raw[J]).call)
               = {J}

\* C12 as claimed: directly after a contactinfo got qsoid K, the lookup of
\* its timestamp and call returns K, and the row of K in qsos is the contact.
C12_RoundTripSameKey ==
    last.op = "contactinfo" =>
        /\ get_qso_id(qsos_raw, last.contact.timestamp, last.contact.call)
               = {last.qsoid}
        /\ Last(qsos_raw[last.qsoid]) = last.contact

\* C12 (amended): directly after a contactinfo got qsoid K, the row of K in
\* qsos is the contact and K is among the qsoids the lookup of its timestamp
\* and call may return; the lookup returns K for certain when no other
\* present QSO has that timestamp and call.
C12_RoundTripAmongMatches ==
    last.op = "contactinfo" =>
        LET K == last.qsoid
            R == get_qso_id(qsos_raw, last.contact.timestamp, last.contact.call)
        IN  /\ K \in Allocated(qsos_raw)
            /\ Last(qsos_raw[K]) = last.contact
            /\ K \in R
            /\ None \notin R
            /\ LatestHas(qsos_raw, last.contact.timestamp, last.contact.call) = {K}
                   => R = {K}

\* C12 happens when the contactinfo arrives beside a QSO with another
\* timestamp and call.
C12_Witness ==
    /\ last.op = "contactinfo"
    /\ last.qsoid = 2
    /\ Last(qsos_raw[1]) # Tombstone
    /\ LatestHas(qsos_raw, last.contact.timestamp, last.contact.call) = {2}

\* C13 as claimed: update_qso of a qsoid whose most recent version is the
\* NULL version appends the contact and makes the qsoid a row of qsos again.
C13_UpdateRevives ==
    [][(/\ last'.op = "update_qso"
        /\ last'.qsoid \in Allocated(qsos_raw)
        /\ Last(qsos_raw[last'.qsoid]) = Tombstone)
       => /\ qsos_raw' = AppendRow(qsos_raw, last'.qsoid, last'.contact)
          /\ last'.qsoid \in sql_qsos(qsos_raw')]_vars

\* C13 (amended): update_qso of a qsoid whose most recent version is the NULL
\* version changes nothing (the qsoid stays deleted); once undo_delete has
\* revived it, update_qso appends the contact and it is the row of qsos.
C13_UpdateNeedsUndo ==
    [][last'.op = "update_qso" /\ last'.qsoid \in Allocated(qsos_raw) =>
          LET k == last'.qsoid
          IN  /\ Last(qsos_raw[k]) = Tombstone =>
                    /\ qsos_raw' = qsos_raw
                    /\ k \notin sql_qsos(qsos_raw')
              /\ (/\ last.op = "undo_delete"
                  /\ last.qsoid = k
                  /\ Last(qsos_raw[k]) # Tombstone) =>
                    /\ qsos_raw' = AppendRow(qsos_raw, k, last'.contact)
                    /\ k \in sql_qsos(qsos_raw')]_vars

\* C13 happens when update_qso is called on a deleted QSO.
C13_Witness ==
    /\ last.op = "update_qso"
    /\ last.qsoid \in Allocated(qsos_raw)
    /\ Last(qsos_raw[last.qsoid]) = Tombstone

\* C14: a contactdelete whose lookup finds K appends exactly one NULL version
\* to K, which leaves qsos, and reports K; one whose lookup finds nothing
\* appends no version and reports None; in both cases last_deleted_contact
\* becomes the timestamp and call of the message with that qsoid.
C14_DeleteEffect ==
    [][last'.op = "contactdelete" =>
          LET c == last'.contact
              M == LatestHas(qsos_raw, c.timestamp, c.call)
              K == last'.qsoid
          IN  /\ last_deleted_contact' =
                     [timestamp |-> c.timestamp, call |-> c.call, qsoid |-> K]
              /\ M # {} =>
                     /\ K \in M
                     /\ qsos_raw' = AppendRow(qsos_raw, K, Tombstone)
                     /\ K \notin sql_qsos(qsos_raw')
              /\ M = {} =>
                     /\ K = None
                     /\ qsos_raw' = qsos_raw]_vars

\* C14 happens for a contactdelete that finds one of two present QSOs.
C14_Witness ==
    /\ last.op = "contactdelete"
    /\ last.qsoid # None
    /\ Len(qsos_raw) = 2
    /\ Cardinality(sql_qsos(qsos_raw)) = 1
    /\ last_deleted_contact.qsoid = last.qsoid

\* C15: every qsoid whose most recent version is the NULL version has an
\* earlier version that is not, so undo_delete always finds a version to copy.
C15_DeletedHasEarlierVersion ==
    \A k \in Allocated(qsos_raw) :
        /\ Len(qsos_raw[k]) >= 1
        /\ Last(qsos_raw[k]) = Tombstone =>
              /\ \E i \in 1..(Len(qsos_raw[k]) - 1) : qsos_raw[k][i] # Tombstone
              /\ MostRecentNonNull(qsos_raw[k]) # 0

\* C15 happens for a QSO deleted a second time, after a replace.
C15_Witness ==
    \E k \in Allocated(qsos_raw) :
        /\ Last(qsos_raw[k]) = Tombstone
        /\ Len(qsos_raw[k]) = 5
        /\ qsos_raw[k][2] = Tombstone

\* C16: a contactreplace handled while last_deleted_contact['qsoid'] is None
\* is applied to the first lookup that finds a qsoid, in the order (its
\* timestamp, its call), (its timestamp, the deleted call), (the deleted
\* timestamp, its call); it appends exactly the contact to that qsoid, with
\* no revival version, and gives up when none finds one.
C16_LookupOrder ==
    [][(/\ last'.op = "contactreplace"
        /\ last_deleted_contact # NoContact
        /\ last_deleted_contact.qsoid = None)
       => LET c == last'.contact
              ldc == last_deleted_contact
              A == LatestHas(qsos_raw, c.timestamp, c.call)
              B == LatestHas(qsos_raw, c.timestamp, ldc.call)
              C == LatestHas(qsos_raw, ldc.timestamp, c.call)
              First == IF A # {} THEN A ELSE IF B # {} THEN B ELSE C
          IN  IF First # {}
              THEN /\ last'.outcome = "Replaced"
                   /\ last'.qsoid \in First
                   /\ qsos_raw' = AppendRow(qsos_raw, last'.qsoid, c)
              ELSE /\ last'.outcome = "GaveUp"
                   /\ qsos_raw' = qsos_raw]_vars

\* C16 happens when the two cross-matched lookups find different QSOs: the
\* one with the timestamp of the contactreplace is replaced.
C16_Witness ==
    /\ last.op = "contactreplace"
    /\ last.outcome = "Replaced"
    /\ last_deleted_contact.qsoid = None
    /\ last_deleted_contact.timestamp # last.contact.timestamp
    /\ last_deleted_contact.call # last.contact.call
    /\ \E J \in sql_qsos(qsos_raw) \ {last.qsoid} :
          /\ Last(qsos_raw[J]).timestamp = last_deleted_contact.timestamp
          /\ Last(qsos_raw[J]).call = last.contact.call
    /\ LET h == qsos_raw[last.qsoid]
       IN  /\ Len(h) = 2
           /\ h[1].timestamp = last.contact.timestamp
           /\ h[1].call = last_deleted_contact.call

\* C17: a contactinfo and a contactreplace, whatever its outcome, leave
\* last_deleted_contact as it was.
C17_DeletedContactOnlyByDelete ==
    [][last'.op \in {"contactinfo", "contactreplace"}
           => last_deleted_contact' = last_deleted_contact]_vars

\* C17 happens when a contactreplace has been applied after a contactdelete
\* that found its QSO.
C17_Witness ==
    /\ last.op = "contactreplace"
    /\ last.outcome = "Replaced"
    /\ last_deleted_contact.qsoid = last.qsoid

\* C18: while last_deleted_contact holds a qsoid K, every contactreplace is
\* applied to K whatever its timestamp and call: the first one after the
\* contactdelete finds K deleted, revives it and appends the contact; a
\* later one appends exactly the contact; no other history changes.
C18_StaleReuse ==
    [][(/\ last'.op = "contactreplace"
        /\ last_deleted_contact # NoContact
        /\ last_deleted_contact.qsoid # None)
       => LET K == last_deleted_contact.qsoid
              c == last'.contact
          IN  /\ K \in Allocated(qsos_raw)
              /\ last'.qsoid = K
              /\ last'.outcome = "Replaced"
              /\ last.op = "contactdelete" => Last(qsos_raw[K]) = Tombstone
              /\ last.op = "contactreplace" => Last(qsos_raw[K]) # Tombstone
              /\ IF Last(qsos_raw[K]) = Tombstone
                 THEN \E i \in 1..Len(qsos_raw[K]) :
                         /\ qsos_raw[K][i] # Tombstone
                         /\ \A j \in (i + 1)..Len(qsos_raw[K]) :
                               qsos_raw[K][j] = Tombstone
                         /\ qsos_raw' =
                               [qsos_raw EXCEPT
                                   ![K] = @ \o <<qsos_raw[K][i], c>>]
                 ELSE qsos_raw' = AppendRow(qsos_raw, K, c)]_vars

\* C18 happens for a second contactreplace after one contactdelete.
C18_Witness ==
    /\ last.op = "contactreplace"
    /\ ~pre.set
    /\ last_deleted_contact.qsoid = last.qsoid
    /\ last.qsoid \in Allocated(qsos_raw)
    /\ LET h == qsos_raw[last.qsoid]
       IN  /\ Len(h) = 5
           /\ h[2] = Tombstone
           /\ h[5] = last.contact

\* The qsoids whose history differs between two states of qsos_raw.
Changed(raw, raw2) ==
    {k \in Allocated(raw2) : k \notin Allocated(raw) \/ raw2[k] # raw[k]}

\* C19: every message changes the history of at most one qsoid: a
\* contactdelete or contactreplace applied to K leaves every other history
\* and row of qsos as it was, and a contactinfo leaves every history there was.
C19_OneKeyPerMessage ==
    [][/\ Cardinality(Changed(qsos_raw, qsos_raw')) <= 1
       /\ last'.op \in {"contactdelete", "contactreplace"} =>
              /\ Len(qsos_raw') = Len(qsos_raw)
              /\ Changed(qsos_raw, qsos_raw') \subseteq {last'.qsoid}
              /\ \A j \in Allocated(qsos_raw) \ {last'.qsoid} :
                    j \in sql_qsos(qsos_raw') <=> j \in sql_qsos(qsos_raw)
       /\ last'.op = "contactinfo" =>
              /\ Changed(qsos_raw, qsos_raw') = {Len(qsos_raw) + 1}
              /\ \A j \in Allocated(qsos_raw) :
                    j \in sql_qsos(qsos_raw') <=> j \in sql_qsos(qsos_raw)]_vars

\* C19 happens when a contactdelete finds one of two present QSOs with the
\* same timestamp and call and the other stays.
C19_Witness ==
    /\ last.op = "contactdelete"
    /\ last.qsoid # None
    /\ \E J \in sql_qsos(qsos_raw) :
          /\ Last(qsos_raw[J]).timestamp = last.contact.timestamp
          /\ Last(qsos_raw[J]).call = last.contact.call

\* A contactreplace directly after two contactdeletes in a row, all three with
\* the same timestamp and call, the first of which found K, the only QSO of
\* that timestamp and call.
C20_Case(K) ==
    /\ DeleteThenReplace
    /\ pre.deleted # NoContact
    /\ pre.deleted.qsoid = K
    /\ pre.deleted.timestamp = last.contact.timestamp
    /\ pre.deleted.call = last.contact.call
    /\ last_deleted_contact.timestamp = last.contact.timestamp
    /\ last_deleted_contact.call = last.contact.call
    /\ Matching(pre.raw, last.contact.timestamp, last.contact.call) = {}

\* C20: when a contactdelete has found K, the only QSO of its timestamp and
\* call, and a second contactdelete with the same timestamp and call follows
\* it directly, the second one finds nothing and leaves qsoid None in
\* last_deleted_contact, and a contactreplace with that timestamp and call
\* that follows gives up: K stays out of qsos and its history still ends in
\* the NULL version.
C20_SecondDeleteWins ==
    \A K \in Allocated(pre.raw) :
        C20_Case(K) =>
            /\ last_deleted_contact.qsoid = None
            /\ last.outcome = "GaveUp"
            /\ qsos_raw = pre.raw
            /\ K \notin sql_qsos(qsos_raw)
            /\ Last(qsos_raw[K]) = Tombstone

\* C20 happens beside a second QSO that is still present.
C20_Witness ==
    \E K \in Allocated(pre.raw) :
        /\ C20_Case(K)
        /\ Len(qsos_raw) = 2
        /\ Cardinality(sql_qsos(qsos_raw)) = 1

\* The messages handled are the first messages sent, in the order sent, and
\* the loop holds the next one sent or none.
InOrder ==
    /\ IsPrefix(handled, sent)
    /\ msg # NoMsg => /\ Len(sent) > Len(handled)
                      /\ msg = sent[Len(handled) + 1]
    /\ sent = handled \o (IF msg = NoMsg THEN <<>> ELSE <<msg>>) \o socket

\* C21: with a fair scheduler every message sent is eventually handled, once
\* and in the order sent: the i-th message handled is the i-th message sent,
\* and the loop takes the next message only after handle_message has
\* returned from the one before.
C21_EveryMessageHandled ==
    /\ []InOrder
    /\ \A i \in 1..MaxMsgs :
          (Len(sent) >= i) ~> (Len(handled) >= i /\ handled[i] = sent[i])

\* last_deleted_contact of instance i.
DeletedContactOf(i) == IF self = i THEN last_deleted_contact ELSE other

\* C22: of two n1mm_handler instances handling messages in any interleaving,
\* the last_deleted_contact of one changes only when that instance handles a
\* contactdelete, to the contact of that message, and never when the other
\* instance handles a message.
C22_DeletedContactPerInstance ==
    [][\A i \in {1, 2} :
          DeletedContactOf(i)' # DeletedContactOf(i) =>
              /\ self = i
              /\ self' = i
              /\ last'.op = "contactdelete"
              /\ DeletedContactOf(i)' =
                     [timestamp |-> last'.contact.timestamp,
                      call |-> last'.contact.call,
                      qsoid |-> last'.qsoid]]_vars

\* C22 happens when each instance has handled a contactdelete of its own and
\* the one handled last found a QSO.
C22_Witness ==
    /\ last.op = "contactdelete"
    /\ last.qsoid # None
    /\ last_deleted_contact.qsoid = last.qsoid
    /\ other # NoContact
    /\ other.timestamp # last_deleted_contact.timestamp
    /\ other.call # last_deleted_contact.call

====
